---- MODULE Spec2Model ----
(***************************************************************************)
(* Model of modules/models.py: the checkpoint adapter (update_state_dict), *)
(* the conversion session (VC_MODEL), the process-wide embedder registry   *)
(* (embedder_model / loaded_embedder_model, load_embedder), the artifact   *)
(* resolver (get_index_path / get_big_npy_path), the output numbering of  *)
(* VC_MODEL.single and the pretrained-asset fetcher (download_models).     *)
(*                                                                         *)
(* Strings are sequences of tokens.  A token is one decimal digit, one of  *)
(* the characters "." "-" "/" or a word: a non-empty run of characters     *)
(* none of which is a digit, a dot, a dash or a slash.                     *)
(***************************************************************************)
EXTENDS Integers, Sequences, FiniteSets, TLC

VARIABLES
    state_dict,             \* the checkpoint record update_state_dict works on
    sd_in,                  \* that record as it was first handed over
    usd_status,             \* "fresh" | "returned" | "raised": the last call's outcome
    resolver,               \* one artifact resolution: its inputs and its results
    is_half,                \* shared.is_half, set once at process start
    vc_model,               \* the process-wide active session
    embedder_model,         \* the process-wide embedder model
    loaded_embedder_model,  \* the process-wide name of the loaded embedder
    audio_out,              \* the file names present in AUDIO_OUT_DIR
    pc,                     \* per thread: where its current call stands
    frame,                  \* per thread: the locals of its current call
    pre,                    \* per thread: the process state at its call's entry
    vc_call,                \* per thread: the arguments handed to the pipeline
    n_calls,                \* calls started so far
    present,                \* the pretrained and embedder files on disk
    fetch,                  \* per file: the donwload_file call for it, if any
    download,               \* the download_models call: its place and locals
    writes                  \* the files written by convert calls, in order

vars == <<state_dict, sd_in, usd_status, resolver, is_half, vc_model,
          embedder_model, loaded_embedder_model, audio_out, pc, frame, pre,
          vc_call, n_calls, present, fetch, download, writes>>

downloadVars == <<present, fetch, download>>

-----------------------------------------------------------------------------
(* Bounds *)

MaxCfgLen == 20
MaxSid == 1
MaxSpk == 2
MaxCalls == 2

-----------------------------------------------------------------------------
(* Strings *)

DigitChars == <<"0", "1", "2", "3", "4", "5", "6", "7", "8", "9">>

IsDigit(c) == \E d \in 1..Len(DigitChars) : DigitChars[d] = c

DigitValue(c) == (CHOOSE d \in 1..Len(DigitChars) : DigitChars[d] = c) - 1

\* str(n) of a natural number: its decimal digits, no leading zero.
RECURSIVE Str(_)
Str(n) ==
    IF n < Len(DigitChars)
    THEN <<DigitChars[n + 1]>>
    ELSE Str(n \div Len(DigitChars)) \o <<DigitChars[(n % Len(DigitChars)) + 1]>>

\* s.rfind(c), 1-based, 0 when c does not occur.
LastIndexOf(s, c) ==
    IF \E j \in 1..Len(s) : s[j] = c
    THEN CHOOSE j \in 1..Len(s) : s[j] = c /\ \A k \in (j + 1)..Len(s) : s[k] # c
    ELSE 0

\* os.path.basename
basename(p) == SubSeq(p, LastIndexOf(p, "/") + 1, Len(p))

\* os.path.splitext(p)[0]: cut at the last dot of the last path component,
\* unless only dots precede it in that component.
splitext(p) ==
    LET sepIndex == LastIndexOf(p, "/")
        dotIndex == LastIndexOf(p, ".")
    IN  IF dotIndex > sepIndex
           /\ \E j \in (sepIndex + 1)..(dotIndex - 1) : p[j] # "."
        THEN SubSeq(p, 1, dotIndex - 1)
        ELSE p

\* re.match(r"\d+", s): the number of leading digits of s.
RECURSIVE DigitRun(_)
DigitRun(s) ==
    IF s # <<>> /\ IsDigit(Head(s)) THEN 1 + DigitRun(Tail(s)) ELSE 0

\* int() of a string of digits.
RECURSIVE ParseInt(_)
ParseInt(s) ==
    IF s = <<>> THEN 0
    ELSE Len(DigitChars) * ParseInt(SubSeq(s, 1, Len(s) - 1))
         + DigitValue(s[Len(s)])

-----------------------------------------------------------------------------
(* Checkpoint adapter: update_state_dict *)

keys == <<"spec_channels", "segment_size", "inter_channels",
          "hidden_channels", "filter_channels", "n_heads", "n_layers",
          "kernel_size", "p_dropout", "resblock", "resblock_kernel_sizes",
          "resblock_dilation_sizes", "upsample_rates",
          "upsample_initial_channel", "upsample_kernel_sizes",
          "spk_embed_dim", "gin_channels", "emb_channels", "sr">>

CanonicalLen == 19
DefaultEmbChannels == 256

EmptyMap == [k \in {} |-> 0]

\* state_dict["params"]: the key absent, None, or a map from names to values.
ParamsAbsent == [tag |-> "absent", map |-> EmptyMap]
ParamsNone == [tag |-> "none", map |-> EmptyMap]
ParamsMap(m) == [tag |-> "map", map |-> m]

\* Mutant of SlotIndex: the array index is not moved back after the skipped key.
SlotIndexNoShift(i, n) == i

\* line 48: i = i - n
SlotIndex(i, n) == i - n

\* Mutant of SkipsSlot: emb_channels is defaulted whatever the array's length.
SkipsSlotAnyLen(config, key) == key = "emb_channels"

\* line 49: the legacy rule
SkipsSlot(config, key) ==
    Len(config) # CanonicalLen /\ key = "emb_channels"

\* Mutant of FillParams: an index past the array's end reads the last entry.
RECURSIVE FillParamsClamped(_, _, _, _)
FillParamsClamped(config, i, n, params) ==
    IF i = Len(keys) THEN [params |-> params, raised |-> FALSE]
    ELSE LET key == keys[i + 1]
             j == SlotIndex(i, n)
         IN  IF SkipsSlot(config, key)
             THEN FillParamsClamped(config, i + 1, n + 1,
                                    (key :> DefaultEmbChannels) @@ params)
             ELSE IF Len(config) = 0
             THEN [params |-> params, raised |-> TRUE]
             ELSE FillParamsClamped(config, i + 1, n,
                     (key :> config[IF j >= Len(config) THEN Len(config)
                                    ELSE j + 1]) @@ params)

\* lines 46-54: the loop from key number i (0-based) on, n keys skipped so far.
\* An index past the array's end raises, leaving the map as filled so far.
RECURSIVE FillParams(_, _, _, _)
FillParams(config, i, n, params) ==
    IF i = Len(keys) THEN [params |-> params, raised |-> FALSE]
    ELSE LET key == keys[i + 1]
             j == SlotIndex(i, n)
         IN  IF SkipsSlot(config, key)
             THEN FillParams(config, i + 1, n + 1,
                             (key :> DefaultEmbChannels) @@ params)
             ELSE IF j >= Len(config)
             THEN [params |-> params, raised |-> TRUE]
             ELSE FillParams(config, i + 1, n,
                             (key :> config[j + 1]) @@ params)

\* lines 21-54: the record after the call, and whether the call raised.
update_state_dict(sd) ==
    IF sd.params.tag = "map"
    THEN [sd |-> sd, raised |-> FALSE]
    ELSE LET r == FillParams(sd.config, 0, 0, EmptyMap)
         IN  [sd |-> [sd EXCEPT !.params = ParamsMap(r.params)],
              raised |-> r.raised]
-----------------------------------------------------------------------------
(* Checkpoint records *)

AbsentInt == [tag |-> "absent", val |-> 0]
AbsentStr == [tag |-> "absent", val |-> ""]
Present(v) == [tag |-> "val", val |-> v]

\* dict.get(key, default)
Get(entry, default) == IF entry.tag = "absent" THEN default ELSE entry.val

KeySet == {keys[i] : i \in 1..Len(keys)}

\* A configuration array of the given length whose entries differ by position.
BaseConfig(len) == [i \in 1..len |-> 100 + i]

\* Arrays of every length up to MaxCfgLen: the base array, and the base array
\* with one entry replaced.
ConfigArrays ==
    UNION {{BaseConfig(len)}
           \cup {[BaseConfig(len) EXCEPT ![p] = v] :
                    p \in 1..len, v \in {0, DefaultEmbChannels}} :
           len \in 0..MaxCfgLen}

\* A params map as an earlier normalisation would have left it.
FullParams == [k \in KeySet |-> 7]
\* A params map written by a version that knew no emb_channels.
LegacyParams == [k \in KeySet \ {"emb_channels"} |-> 7]

Checkpoint(params, config, f0, embedder_name, rows) ==
    [params |-> params, config |-> config, f0 |-> f0,
     embedder_name |-> embedder_name, emb_g_rows |-> rows]

NormalizeInputs ==
    {Checkpoint(p, c, AbsentInt, AbsentStr, 1) :
        p \in {ParamsAbsent, ParamsNone, ParamsMap(FullParams),
               ParamsMap(LegacyParams)},
        c \in ConfigArrays}

-----------------------------------------------------------------------------
(* Paths *)

\* os.path.join(a, b)
Join2(a, b) ==
    IF b # <<>> /\ Head(b) = "/" THEN b
    ELSE IF a = <<>> \/ a[Len(a)] = "/" THEN a \o b
    ELSE a \o <<"/">> \o b

\* os.path.join over a non-empty list of components
RECURSIVE Join(_)
Join(parts) ==
    IF Len(parts) = 1 THEN parts[1]
    ELSE Join(<<Join2(parts[1], parts[2])>> \o SubSeq(parts, 3, Len(parts)))

\* line 196, with opts.models_dir standing as one word
MODELS_DIR == <<"models">>

ModelNames == {<<"foo", ".", "pth">>, <<"baz", ".", "v", ".", "ckpt">>}

-----------------------------------------------------------------------------
(* Artifact resolver: get_index_path, get_big_npy_path *)

\* Mutant of exists: every path is taken to exist.
existsAlways(path, fs) == TRUE

\* os.path.exists on a filesystem given as the set of its paths
exists(path, fs) == path \in fs

\* lines 172-178, 184-190: the per-speaker artifact of a model
speaker_path(model_name, speaker_id, ext) ==
    LET stem == splitext(model_name)
    IN  Join(<<MODELS_DIR, <<"checkpoints">>, stem \o <<"_index">>,
               stem \o <<".">> \o Str(speaker_id) \o ext>>)

\* lines 181, 193: the model-level artifact
model_path(model_name, ext) ==
    Join(<<MODELS_DIR, <<"checkpoints">>, splitext(model_name) \o ext>>)

IndexExt == <<".", "index">>
BigNpyExt == <<".", "big", ".", "npy">>

\* lines 183-193
get_index_path(model_name, speaker_id, fs) ==
    IF exists(speaker_path(model_name, speaker_id, IndexExt), fs)
    THEN speaker_path(model_name, speaker_id, IndexExt)
    ELSE model_path(model_name, IndexExt)

\* lines 171-181
get_big_npy_path(model_name, speaker_id, fs) ==
    IF exists(speaker_path(model_name, speaker_id, BigNpyExt), fs)
    THEN speaker_path(model_name, speaker_id, BigNpyExt)
    ELSE model_path(model_name, BigNpyExt)

\* The artifact files a models directory may hold for one model.
ArtifactPaths(model_name) ==
    {speaker_path(model_name, sid, ext) :
        sid \in 0..MaxSid, ext \in {IndexExt, BigNpyExt}}
    \cup {model_path(model_name, ext) : ext \in {IndexExt, BigNpyExt}}

-----------------------------------------------------------------------------
(* Pretrained assets: the files download_models looks for *)

\* lines 205-210, "{}" being the place str.format fills
PretrainedTemplates ==
    <<(<<"D", "{}", "k">>), (<<"G", "{}", "k">>), (<<"f", "0", "D", "{}", "k">>),
      (<<"f", "0", "G", "{}", "k">>)>>

\* line 211
Rates == <<(<<"3", "2">>), (<<"4", "0">>), (<<"4", "8">>)>>

\* template.format(sr)
RECURSIVE Format(_, _)
Format(template, sr) ==
    IF template = <<>> THEN <<>>
    ELSE (IF Head(template) = "{}" THEN sr ELSE <<Head(template)>>)
         \o Format(Tail(template), sr)

\* line 213, for the k-th pass of the nested loops of lines 205-211
PretrainedOut(k) ==
    Join(<<MODELS_DIR, <<"pretrained">>,
           Format(PretrainedTemplates[((k - 1) \div Len(Rates)) + 1],
                  Rates[((k - 1) % Len(Rates)) + 1]) \o <<".", "pth">>>>)

PretrainedOuts ==
    [k \in 1..(Len(PretrainedTemplates) * Len(Rates)) |-> PretrainedOut(k)]

\* lines 221-224
EmbedderUrls ==
    <<(<<"https:", "/", "/", "huggingface", ".", "co", "/", "ddPn", "0", "8",
         "/", "rvc_pretrained", "/", "resolve", "/", "main", "/",
         "hubert_base", ".", "pt">>),
      (<<"https:", "/", "/", "huggingface", ".", "co", "/", "innnky", "/",
         "contentvec", "/", "resolve", "/", "main", "/",
         "checkpoint_best_legacy_", "5", "0", "0", ".", "pt">>)>>

\* urlparse(url).path: what follows the scheme, the two slashes and the host
RECURSIVE UrlPath(_, _)
UrlPath(url, slashes) ==
    IF url = <<>> THEN <<>>
    ELSE IF Head(url) = "/" /\ slashes = 2 THEN url
    ELSE UrlPath(Tail(url), IF Head(url) = "/" THEN slashes + 1 ELSE slashes)

\* line 225
EmbedderOut(url) == Join(<<MODELS_DIR, basename(UrlPath(url, 0))>>)

EmbedderOuts == [k \in 1..Len(EmbedderUrls) |-> EmbedderOut(EmbedderUrls[k])]

AllOuts ==
    {PretrainedOuts[k] : k \in DOMAIN PretrainedOuts}
    \cup {EmbedderOuts[k] : k \in DOMAIN EmbedderOuts}

\* No donwload_file call was made for a file.
NoFetch == [state |-> "none", after_wait |-> FALSE]

\* download_models is not running.
NoDownload == [pc |-> "idle", i |-> 0, tasks |-> <<>>, waited |-> FALSE]

-----------------------------------------------------------------------------
(* Embedder table and output numbering of VC_MODEL.single *)

\* Mutant of load_emb_dic: hubert_base is given the contentvec weight file.
load_emb_dic_misfiled ==
    ("hubert_base" :> [file |-> "checkpoint_best_legacy_500.pt",
                       name |-> "hubert_base"])
    @@ ("hubert_base768" :> [file |-> "hubert_base.pt", name |-> "hubert_base"])
    @@ ("contentvec" :> [file |-> "checkpoint_best_legacy_500.pt",
                         name |-> "contentvec"])
    @@ ("contentvec768" :> [file |-> "checkpoint_best_legacy_500.pt",
                            name |-> "contentvec"])

\* lines 108-113
load_emb_dic ==
    ("hubert_base" :> [file |-> "hubert_base.pt", name |-> "hubert_base"])
    @@ ("hubert_base768" :> [file |-> "hubert_base.pt", name |-> "hubert_base"])
    @@ ("contentvec" :> [file |-> "checkpoint_best_legacy_500.pt",
                         name |-> "contentvec"])
    @@ ("contentvec768" :> [file |-> "checkpoint_best_legacy_500.pt",
                            name |-> "contentvec"])

\* Mutant of Supersedes: a smaller prefix replaces the running index.
SupersedesSmaller(index, prefix_num) == index > prefix_num

\* line 161
Supersedes(index, prefix_num) == index < prefix_num

\* Mutant of ScanLoop: the loop ends at the first name with a numeric prefix.
RECURSIVE ScanLoopFirstMatch(_, _)
ScanLoopFirstMatch(existing_files, index) ==
    IF existing_files = {} THEN index
    ELSE LET existing_file == CHOOSE f \in existing_files : TRUE
             digits == DigitRun(existing_file)
         IN  IF digits > 0
             THEN ParseInt(SubSeq(existing_file, 1, digits))
             ELSE ScanLoopFirstMatch(existing_files \ {existing_file}, index)

\* lines 157-162: the loop over the listed names, from the running index on
RECURSIVE ScanLoop(_, _)
ScanLoop(existing_files, index) ==
    IF existing_files = {} THEN index
    ELSE LET existing_file == CHOOSE f \in existing_files : TRUE
             digits == DigitRun(existing_file)
             prefix_num == ParseInt(SubSeq(existing_file, 1, digits))
         IN  ScanLoop(existing_files \ {existing_file},
                      IF digits > 0 /\ Supersedes(index, prefix_num)
                      THEN prefix_num ELSE index)

\* Mutant of ExportName: the number is left out of the name.
ExportNameUnnumbered(index, model_name, input_audio) ==
    splitext(model_name) \o <<"-">> \o splitext(basename(input_audio))
    \o <<".", "wav">>

\* Mutant of ExportName: the file is numbered index, not index + 1.
ExportNameSameIndex(index, model_name, input_audio) ==
    Str(index) \o <<"-">> \o splitext(model_name) \o <<"-">>
    \o splitext(basename(input_audio)) \o <<".", "wav">>

\* lines 153-154, 165: the name of the file written
ExportName(index, model_name, input_audio) ==
    Str(index + 1) \o <<"-">> \o splitext(model_name) \o <<"-">>
    \o splitext(basename(input_audio)) \o <<".", "wav">>

-----------------------------------------------------------------------------
(* Process state *)

Threads == {1, 2}

NoCheckpoint == Checkpoint(ParamsAbsent, <<>>, AbsentInt, AbsentStr, 0)

\* vc_model = None
NoSession ==
    [model_name |-> <<>>, weight |-> NoCheckpoint, tgt_sr |-> 0,
     embedder_name |-> "",
     net_g |-> [variant |-> "", spk_embed_dim |-> 0, precision |-> ""],
     n_spk |-> 0]

\* embedder_model = None
NoEmbedder == [file |-> "", inst |-> 0, device |-> "", precision |-> "",
               training |-> FALSE]

\* The locals of a call: of VC_MODEL.single, load_hubert or load_contentvec.
NoFrame ==
    [kind |-> "", call_no |-> 0, self |-> NoSession, input_audio |-> <<>>,
     emb_file |-> "", emb_name |-> "", loaded |-> FALSE,
     existing_files |-> {}, index |-> 0, out_name |-> <<>>, error |-> ""]

NoSnapshot ==
    [vc_model |-> NoSession, embedder_model |-> NoEmbedder,
     loaded_embedder_model |-> "", audio_out |-> {}]

\* The arguments of self.vc(...), lines 131-144, and the models directory as
\* the resolver saw it.
NoRequest ==
    [sid |-> 0, auto_load_index |-> FALSE, faiss_index_file |-> <<>>,
     big_npy_file |-> <<>>, fs |-> {}]

NoVcCall ==
    [made |-> FALSE, embedder_model |-> NoEmbedder, sid |-> 0,
     faiss_index_file |-> <<>>, big_npy_file |-> <<>>, f0 |-> 0,
     embedder_name |-> "", request |-> NoRequest]

NoResolver ==
    [model_name |-> <<>>, speaker_id |-> 0, fs |-> {}, index_done |-> FALSE,
     index_path |-> <<>>, big_npy_done |-> FALSE, big_npy_path |-> <<>>]

\* The module's globals as the import leaves them (lines 196-199).
ProcessStart ==
    /\ vc_model = NoSession
    /\ embedder_model = NoEmbedder
    /\ loaded_embedder_model = ""
    /\ pc = [t \in Threads |-> "idle"]
    /\ frame = [t \in Threads |-> NoFrame]
    /\ pre = [t \in Threads |-> NoSnapshot]
    /\ vc_call = [t \in Threads |-> NoVcCall]
    /\ n_calls = 0
    /\ writes = <<>>

\* download_models has not been called and every asset is on disk.
DownloadIdle ==
    /\ present = AllOuts
    /\ fetch = [f \in AllOuts |-> NoFetch]
    /\ download = NoDownload

processVars == <<is_half, vc_model, embedder_model, loaded_embedder_model,
                 audio_out, pc, frame, pre, vc_call, n_calls, writes>>
normalizeVars == <<state_dict, sd_in, usd_status>>

-----------------------------------------------------------------------------
(* The checkpoint adapter on its own *)

InitNormalize ==
    /\ state_dict \in NormalizeInputs
    /\ sd_in = state_dict
    /\ usd_status = "fresh"
    /\ resolver = NoResolver
    /\ is_half = FALSE
    /\ audio_out = {}
    /\ ProcessStart
    /\ DownloadIdle

\* update_state_dict(state_dict) returns.
UpdateStateDictReturns ==
    /\ ~update_state_dict(state_dict).raised
    /\ state_dict' = update_state_dict(state_dict).sd
    /\ usd_status' = "returned"
    /\ UNCHANGED <<sd_in, resolver, downloadVars, processVars>>

\* update_state_dict(state_dict) raises IndexError.
UpdateStateDictRaises ==
    /\ update_state_dict(state_dict).raised
    /\ state_dict' = update_state_dict(state_dict).sd
    /\ usd_status' = "raised"
    /\ UNCHANGED <<sd_in, resolver, downloadVars, processVars>>

NextNormalize == UpdateStateDictReturns \/ UpdateStateDictRaises

SpecNormalize == InitNormalize /\ [][NextNormalize]_vars

\* The canonical names other than emb_channels, in the canonical order.
OtherKeys == SelectSeq(keys, LAMBDA k : k # "emb_channels")

\* The first call on a record that came without a params map has been made.
NormalizedFromArray(len) ==
    /\ usd_status # "fresh"
    /\ sd_in.params.tag # "map"
    /\ Len(sd_in.config) = len

\* C3: a call on a record without a params map whose configuration array has
\* 18 entries returns normally with emb_channels = 256 and the i-th of the
\* other 18 canonical names bound to the array's i-th entry, so sr to the
\* last one.
LegacyBackfill ==
    NormalizedFromArray(CanonicalLen - 1) =>
        /\ usd_status = "returned"
        /\ state_dict.params.tag = "map"
        /\ DOMAIN state_dict.params.map = KeySet
        /\ state_dict.params.map["emb_channels"] = DefaultEmbChannels
        /\ \A i \in 1..Len(OtherKeys) :
              state_dict.params.map[OtherKeys[i]] = sd_in.config[i]
        /\ state_dict.params.map["sr"] = sd_in.config[CanonicalLen - 1]

LegacyBackfillWitness ==
    /\ NormalizedFromArray(CanonicalLen - 1)
    /\ usd_status = "returned"
    /\ sd_in.params = ParamsNone
    /\ sd_in.config[CanonicalLen - 1] = DefaultEmbChannels
    /\ state_dict.params.map["sr"] = DefaultEmbChannels

\* C4 as stated: a call on a record without a params map whose configuration
\* array has 19 entries returns with emb_channels bound to array[18] (counting
\* from 0), the array's last entry.
EmbChannelsIsLastEntry ==
    NormalizedFromArray(CanonicalLen) =>
        /\ usd_status = "returned"
        /\ state_dict.params.tag = "map"
        /\ "emb_channels" \in DOMAIN state_dict.params.map
        /\ state_dict.params.map["emb_channels"] = sd_in.config[CanonicalLen]

\* C4 as amended: a call on a record without a params map whose configuration
\* array has 19 entries returns normally with emb_channels taken from the
\* array, bound to array[17] (counting from 0), the entry before the last;
\* the last entry, array[18], is bound to sr.
FullArrayEmbChannels ==
    NormalizedFromArray(CanonicalLen) =>
        /\ usd_status = "returned"
        /\ state_dict.params.tag = "map"
        /\ DOMAIN state_dict.params.map = KeySet
        /\ state_dict.params.map["emb_channels"]
              = sd_in.config[CanonicalLen - 1]
        /\ state_dict.params.map["sr"] = sd_in.config[CanonicalLen]

FullArrayEmbChannelsWitness ==
    /\ NormalizedFromArray(CanonicalLen)
    /\ usd_status = "returned"
    /\ sd_in.params = ParamsAbsent
    /\ sd_in.config[CanonicalLen - 1] = 0
    /\ sd_in.config[CanonicalLen] # 0
    /\ state_dict.params.map["emb_channels"] = 0

\* C20: a call on a record that came with a params map changes nothing; on
\* a record that came without one, every call that returns normally, a call
\* repeated after one that raised included, leaves a params map with all 19
\* canonical keys.
ReturnedMeansComplete ==
    /\ sd_in.params.tag = "map" => state_dict = sd_in
    /\ sd_in.params.tag # "map" /\ usd_status = "returned"
          => /\ state_dict.params.tag = "map"
             /\ DOMAIN state_dict.params.map = KeySet

-----------------------------------------------------------------------------
(* The artifact resolver on its own *)

InitResolver ==
    /\ resolver \in
          {[NoResolver EXCEPT !.model_name = m, !.speaker_id = sid, !.fs = fs] :
              m \in ModelNames, sid \in 0..MaxSid,
              fs \in UNION {SUBSET ArtifactPaths(n) : n \in ModelNames}}
    /\ state_dict = NoCheckpoint
    /\ sd_in = NoCheckpoint
    /\ usd_status = "fresh"
    /\ is_half = FALSE
    /\ audio_out = {}
    /\ ProcessStart
    /\ DownloadIdle

\* self.get_index_path(speaker_id)
GetIndexPath ==
    /\ ~resolver.index_done
    /\ resolver' =
          [resolver EXCEPT
              !.index_done = TRUE,
              !.index_path = get_index_path(resolver.model_name,
                                            resolver.speaker_id, resolver.fs)]
    /\ UNCHANGED <<normalizeVars, downloadVars, processVars>>

\* self.get_big_npy_path(speaker_id)
GetBigNpyPath ==
    /\ ~resolver.big_npy_done
    /\ resolver' =
          [resolver EXCEPT
              !.big_npy_done = TRUE,
              !.big_npy_path = get_big_npy_path(resolver.model_name,
                                                resolver.speaker_id,
                                                resolver.fs)]
    /\ UNCHANGED <<normalizeVars, downloadVars, processVars>>

NextResolver == GetIndexPath \/ GetBigNpyPath

SpecResolver == InitResolver /\ [][NextResolver]_vars

\* checkpoints/<basename>_index/<basename>.<speaker_id><ext> under the models
\* directory, <basename> being the model name without its extension
PerSpeakerFile(ext) ==
    MODELS_DIR \o <<"/", "checkpoints", "/">>
    \o splitext(resolver.model_name) \o <<"_index", "/">>
    \o splitext(resolver.model_name) \o <<".">>
    \o Str(resolver.speaker_id) \o ext

\* checkpoints/<basename><ext> under the models directory
ModelLevelFile(ext) ==
    MODELS_DIR \o <<"/", "checkpoints", "/">>
    \o splitext(resolver.model_name) \o ext

\* C6: get_index_path and get_big_npy_path return the per-speaker path if and
\* only if that file exists, and otherwise the model-level path, whether or
\* not that file exists.
ResolverFallback ==
    /\ resolver.index_done =>
          /\ (resolver.index_path = PerSpeakerFile(IndexExt))
                <=> (PerSpeakerFile(IndexExt) \in resolver.fs)
          /\ PerSpeakerFile(IndexExt) \notin resolver.fs
                => resolver.index_path = ModelLevelFile(IndexExt)
    /\ resolver.big_npy_done =>
          /\ (resolver.big_npy_path = PerSpeakerFile(BigNpyExt))
                <=> (PerSpeakerFile(BigNpyExt) \in resolver.fs)
          /\ PerSpeakerFile(BigNpyExt) \notin resolver.fs
                => resolver.big_npy_path = ModelLevelFile(BigNpyExt)

\* The fallback is returned though neither it nor the per-speaker file exists,
\* while the other speaker's file does; and the vector store of the same
\* speaker, whose file exists, resolves to the per-speaker path.
ResolverFallbackWitness ==
    /\ resolver.index_done /\ resolver.big_npy_done
    /\ resolver.model_name = <<"foo", ".", "pth">>
    /\ resolver.speaker_id = 1
    /\ resolver.fs = {speaker_path(resolver.model_name, 0, IndexExt),
                      speaker_path(resolver.model_name, 1, BigNpyExt)}
    /\ resolver.index_path
          = <<"models", "/", "checkpoints", "/", "foo", ".", "index">>
    /\ resolver.big_npy_path
          = <<"models", "/", "checkpoints", "/", "foo", "_index", "/",
              "foo", ".", "1", ".", "big", ".", "npy">>

-----------------------------------------------------------------------------
(* Conversion session: VC_MODEL.__init__, get_vc_model, load_model *)

\* Mutant of SpeakerDim: the stored speaker dimension is trusted.
SpeakerDimStored(sd) == sd.params.map["spk_embed_dim"]

\* lines 65-67: state_dict["weight"]["emb_g.weight"].shape[0]
SpeakerDim(sd) == sd.emb_g_rows

\* lines 58-89.  The constructor raises when update_state_dict does, when the
\* params map has no sr (line 62) or no spk_embed_dim to hand to the network,
\* and when the network's constructor is not given exactly its parameters
\* (lines 72-76).
VC_MODEL(model_name, ck) ==
    LET r == update_state_dict(ck)
        m0 == r.sd.params.map
        m1 == ("spk_embed_dim" :> SpeakerDim(r.sd)) @@ m0
        m2 == IF "emb_channels" \in DOMAIN m1 THEN m1
              ELSE ("emb_channels" :> DefaultEmbChannels) @@ m1
        f0 == Get(r.sd.f0, 1)
        weight == [r.sd EXCEPT !.params = ParamsMap(m2)]
    IN  IF r.raised \/ "sr" \notin DOMAIN m0 \/ DOMAIN m2 # KeySet
        THEN [raised |-> TRUE, state_dict |-> r.sd, self |-> NoSession]
        ELSE [raised |-> FALSE,
              state_dict |-> weight,
              self |->
                 [model_name |-> model_name,
                  weight |-> weight,
                  tgt_sr |-> m0["sr"],
                  embedder_name |-> Get(r.sd.embedder_name, "hubert_base"),
                  net_g |->
                     [variant |-> IF f0 = 1
                                  THEN "SynthesizerTrnMs256NSFSid"
                                  ELSE "SynthesizerTrnMs256NSFSidNono",
                      spk_embed_dim |-> m2["spk_embed_dim"],
                      precision |-> IF is_half THEN "half" ELSE "float"],
                  n_spk |-> m2["spk_embed_dim"]]]

\* A call is in progress in no thread.
Ready(t) == pc[t] \in {"idle", "returned", "raised"}

\* What torch.load may return for the sessions that conversions run on: a
\* full array, every embedder name of the table, one outside it, and none.
ConvertCheckpoints ==
    {Checkpoint(ParamsAbsent, BaseConfig(CanonicalLen), AbsentInt, e, 1) :
        e \in {AbsentStr, Present("hubert_base768"), Present("contentvec"),
               Present("contentvec768"), Present("hubert_large")}}

\* What torch.load may return, for the session load on its own: arrays of 0,
\* 3, 17, 18 and 19 entries and params maps (whole, without emb_channels, without
\* sr), with a stored speaker dimension that agrees or not with the rows of
\* emb_g.weight.
SessionTemplates ==
    {<<ParamsAbsent, CanonicalLen, AbsentInt>>,
     <<ParamsNone, CanonicalLen - 1, Present(0)>>,
     <<ParamsAbsent, CanonicalLen - 2, AbsentInt>>,
     <<ParamsNone, 3, AbsentInt>>,
     <<ParamsAbsent, 0, Present(1)>>,
     <<ParamsMap(FullParams), CanonicalLen, Present(1)>>,
     <<ParamsMap(LegacyParams), CanonicalLen - 1, AbsentInt>>,
     <<ParamsMap([k \in KeySet \ {"sr"} |-> 7]), CanonicalLen, AbsentInt>>}

SessionCheckpoints ==
    {Checkpoint(IF tp[1].tag = "map" /\ "sr" \in DOMAIN tp[1].map
                THEN ParamsMap([tp[1].map EXCEPT !["spk_embed_dim"] = stored])
                ELSE tp[1],
                IF tp[2] >= 16 THEN [BaseConfig(tp[2]) EXCEPT ![16] = stored]
                ELSE BaseConfig(tp[2]),
                tp[3], AbsentStr, rows) :
        tp \in SessionTemplates, stored \in {1, 109}, rows \in 1..MaxSpk}

\* lines 291-299: load_model(model_name), called by thread t between its
\* other calls, with torch.load returning one of files; vc_model is assigned
\* once the session is constructed.  With trace, the record read and the
\* record as the constructor left it are kept.
LoadModel(t, names, files, trace) ==
    \E model_name \in names, ck \in files :
        /\ Ready(t)
        /\ n_calls < MaxCalls
        /\ ~VC_MODEL(model_name, ck).raised
        /\ vc_model' = VC_MODEL(model_name, ck).self
        /\ IF trace
           THEN /\ sd_in' = ck
                /\ state_dict' = VC_MODEL(model_name, ck).state_dict
                /\ usd_status' = "returned"
           ELSE UNCHANGED normalizeVars
        /\ pc' = [pc EXCEPT ![t] = "idle"]
        /\ frame' = [frame EXCEPT ![t] = NoFrame]
        /\ pre' = [pre EXCEPT ![t] = NoSnapshot]
        /\ vc_call' = [vc_call EXCEPT ![t] = NoVcCall]
        /\ UNCHANGED <<resolver, downloadVars, is_half, embedder_model,
                       loaded_embedder_model, audio_out, n_calls, writes>>

\* load_model(model_name) raises: torch.load fails, the constructor raises,
\* or the network rejects the weights (line 80).
LoadModelRaises(t, names, files, trace) ==
    \E model_name \in names, ck \in files :
        /\ Ready(t)
        /\ n_calls < MaxCalls
        /\ IF trace
           THEN /\ sd_in' = ck
                /\ state_dict' = VC_MODEL(model_name, ck).state_dict
                /\ usd_status' = "raised"
           ELSE UNCHANGED normalizeVars
        /\ pc' = [pc EXCEPT ![t] = "idle"]
        /\ frame' = [frame EXCEPT ![t] = NoFrame]
        /\ pre' = [pre EXCEPT ![t] = NoSnapshot]
        /\ vc_call' = [vc_call EXCEPT ![t] = NoVcCall]
        /\ UNCHANGED <<resolver, downloadVars, is_half, vc_model, embedder_model,
                       loaded_embedder_model, audio_out, n_calls, writes>>

Main == 1

InitSession ==
    /\ state_dict = NoCheckpoint
    /\ sd_in = NoCheckpoint
    /\ usd_status = "fresh"
    /\ resolver = NoResolver
    /\ is_half \in BOOLEAN
    /\ audio_out = {}
    /\ ProcessStart
    /\ DownloadIdle

NextSession ==
    \/ LoadModel(Main, ModelNames, SessionCheckpoints, TRUE)
    \/ LoadModelRaises(Main, ModelNames, SessionCheckpoints, TRUE)

SpecSession == InitSession /\ [][NextSession]_vars

\* The speaker dimension the loaded checkpoint stored: in its params map when
\* it came with one, in its configuration array otherwise.
StoredSpeakerDim ==
    IF sd_in.params.tag = "map"
    THEN sd_in.params.map["spk_embed_dim"]
    ELSE sd_in.config[16]

\* The last load_model call succeeded: vc_model is the session it built.
SessionLoaded == usd_status = "returned" /\ vc_model # NoSession

\* C5: after a successful session load the configuration's spk_embed_dim, the
\* network's and the session's n_spk all equal the leading dimension of
\* emb_g.weight, whatever the checkpoint stored.
SpeakerDimFromTensor ==
    SessionLoaded =>
        /\ vc_model.weight.params.map["spk_embed_dim"] = sd_in.emb_g_rows
        /\ vc_model.net_g.spk_embed_dim = sd_in.emb_g_rows
        /\ vc_model.n_spk = sd_in.emb_g_rows

SpeakerDimFromTensorWitness ==
    /\ SessionLoaded
    /\ sd_in.params.tag = "map"
    /\ StoredSpeakerDim = 109
    /\ sd_in.emb_g_rows = 2
    /\ vc_model.n_spk = 2

\* The last load_model call was on a checkpoint without a params map whose
\* configuration array has fewer than 18 entries.
ShortArrayLoaded ==
    /\ usd_status # "fresh"
    /\ sd_in.params.tag # "map"
    /\ Len(sd_in.config) < CanonicalLen - 1

\* C12: load_model on a checkpoint without a params map whose configuration
\* array has fewer than 18 entries raises, and a load_model call that raises
\* leaves vc_model the session it was before the call.
LoadAllOrNothing ==
    /\ [](ShortArrayLoaded => usd_status = "raised")
    /\ [][usd_status' = "raised" => vc_model' = vc_model]_vars

\* A session is active and the load on a short array that followed raised.
LoadAllOrNothingWitness ==
    /\ ShortArrayLoaded
    /\ Len(sd_in.config) = CanonicalLen - 2
    /\ usd_status = "raised"
    /\ vc_model # NoSession
    /\ vc_model.model_name = <<"foo", ".", "pth">>

-----------------------------------------------------------------------------
(* Embedder registry and conversion: VC_MODEL.single, load_embedder,        *)
(* load_hubert, load_contentvec, one action per step between two accesses  *)
(* to the process-wide state or the output directory                       *)

\* The source audio paths a request may carry; the empty one is "not set".
InputAudios == {<<>>, <<"in", "/", "bar", ".", "wav">>}

\* The output directory as a process may find it.
InitialOutDirs ==
    {{},
     {<<"3", "-", "foo", "-", "bar", ".", "wav">>,
      <<"7", "-", "baz", "-", "qux", ".", "wav">>},
     {<<"notes", ".", "txt">>, <<"0", "9", "-", "foo", "-", "bar", ".", "wav">>,
      <<"1", "0">>},
     {<<"1", "-", "foo", "-", "bar", ".", "wav">>}}

\* The index arguments of a request and the models directory it meets.
Requests ==
    {[NoRequest EXCEPT !.auto_load_index = a] : a \in BOOLEAN}

Snapshot ==
    [vc_model |-> vc_model, embedder_model |-> embedder_model,
     loaded_embedder_model |-> loaded_embedder_model, audio_out |-> audio_out]

\* A call begins in thread t with the locals fr: the state at entry is noted.
Enter(t, fr) ==
    /\ Ready(t)
    /\ n_calls < MaxCalls
    /\ n_calls' = n_calls + 1
    /\ pre' = [pre EXCEPT ![t] = Snapshot]
    /\ vc_call' = [vc_call EXCEPT ![t] = NoVcCall]
    /\ frame' = [frame EXCEPT ![t] = [fr EXCEPT !.call_no = n_calls + 1]]

SingleFrame(input_audio) ==
    [NoFrame EXCEPT !.kind = "single", !.self = vc_model,
                    !.input_audio = input_audio]

globals == <<is_half, vc_model, embedder_model, loaded_embedder_model>>
otherSpecs == <<normalizeVars, resolver, downloadVars>>

\* lines 103-104: vc_model.single(...) with no source audio
SingleNoSource(t) ==
    /\ vc_model # NoSession
    /\ Enter(t, [SingleFrame(<<>>) EXCEPT !.error = "You need to set Source Audio"])
    /\ pc' = [pc EXCEPT ![t] = "raised"]
    /\ UNCHANGED <<otherSpecs, globals, audio_out, writes>>

\* lines 105-106: int(f0_up_key) or load_audio raises
SingleDecodeRaises(t) ==
    \E input_audio \in InputAudios \ {<<>>} :
        /\ vc_model # NoSession
        /\ Enter(t, [SingleFrame(input_audio) EXCEPT !.error = "load_audio"])
        /\ pc' = [pc EXCEPT ![t] = "raised"]
        /\ UNCHANGED <<otherSpecs, globals, audio_out, writes>>

\* lines 114-115: the session's embedder name is not in the table
SingleNotSupported(t) ==
    \E input_audio \in InputAudios \ {<<>>} :
        /\ vc_model # NoSession
        /\ vc_model.embedder_name \notin DOMAIN load_emb_dic
        /\ Enter(t, [SingleFrame(input_audio) EXCEPT
                        !.error = "Not supported embedder"])
        /\ pc' = [pc EXCEPT ![t] = "raised"]
        /\ UNCHANGED <<otherSpecs, globals, audio_out, writes>>

\* Mutant of SingleStart: the embedder name is not looked up before the
\* embedder check.
SingleStartUnchecked(t) ==
    \E input_audio \in InputAudios \ {<<>>} :
        /\ vc_model # NoSession
        /\ Enter(t, SingleFrame(input_audio))
        /\ pc' = [pc EXCEPT ![t] = "check_embedder"]
        /\ UNCHANGED <<otherSpecs, globals, audio_out, writes>>

\* lines 103-115 passed: the request is valid and its audio decoded
SingleStart(t) ==
    \E input_audio \in InputAudios \ {<<>>} :
        /\ vc_model # NoSession
        /\ vc_model.embedder_name \in DOMAIN load_emb_dic
        /\ Enter(t, SingleFrame(input_audio))
        /\ pc' = [pc EXCEPT ![t] = "check_embedder"]
        /\ UNCHANGED <<otherSpecs, globals, audio_out, writes>>

\* Mutant of NeedsLoad: the loaded name is compared with the session's
\* logical name, not with its family.
NeedsLoadByAlias(self) ==
    \/ embedder_model = NoEmbedder
    \/ loaded_embedder_model # self.embedder_name

\* lines 116-119
NeedsLoad(self) ==
    \/ embedder_model = NoEmbedder
    \/ loaded_embedder_model # load_emb_dic[self.embedder_name].name

\* lines 116-123: the check, and the call of load_embedder when it says so
SingleCheckEmbedder(t) ==
    /\ pc[t] = "check_embedder"
    /\ IF NeedsLoad(frame[t].self)
       THEN /\ pc' = [pc EXCEPT ![t] = "load_file"]
            /\ frame' = [frame EXCEPT
                  ![t].loaded = TRUE,
                  ![t].emb_file = load_emb_dic[frame[t].self.embedder_name].file,
                  ![t].emb_name = load_emb_dic[frame[t].self.embedder_name].name]
       ELSE /\ pc' = [pc EXCEPT ![t] = "call_pipeline"]
            /\ UNCHANGED frame
    /\ UNCHANGED <<otherSpecs, globals, audio_out, writes, pre, vc_call, n_calls>>

\* line 257: load_hubert() is called
LoadHubert(t) ==
    /\ Enter(t, [NoFrame EXCEPT !.kind = "load_hubert", !.loaded = TRUE,
                                !.emb_file = "hubert_base.pt",
                                !.emb_name = "hubert_base"])
    /\ pc' = [pc EXCEPT ![t] = "load_file"]
    /\ UNCHANGED <<otherSpecs, globals, audio_out, writes>>

\* line 274: load_contentvec() is called
LoadContentvec(t) ==
    /\ Enter(t, [NoFrame EXCEPT !.kind = "load_contentvec", !.loaded = TRUE,
                                !.emb_file = "checkpoint_best_legacy_500.pt",
                                !.emb_name = "contentvec"])
    /\ pc' = [pc EXCEPT ![t] = "load_file"]
    /\ UNCHANGED <<otherSpecs, globals, audio_out, writes>>

\* A step of a call that raises: nothing but the thread's place changes.
Raises(t, at, error) ==
    /\ pc[t] = at
    /\ pc' = [pc EXCEPT ![t] = "raised"]
    /\ frame' = [frame EXCEPT ![t].error = error]
    /\ UNCHANGED <<otherSpecs, globals, audio_out, writes, pre, vc_call, n_calls>>

\* A step of a call that touches the embedder model only.
EmbedderStep(t, at, to, model) ==
    /\ pc[t] = at
    /\ pc' = [pc EXCEPT ![t] = to]
    /\ embedder_model' = model
    /\ UNCHANGED <<otherSpecs, is_half, vc_model, loaded_embedder_model,
                   audio_out, writes, frame, pre, vc_call, n_calls>>

\* lines 242-246 (259-263, 276-280): the weights are read and the new model
\* is bound to embedder_model
LoadEmbedderFile(t) ==
    EmbedderStep(t, "load_file", "to_device",
                 [file |-> frame[t].emb_file, inst |-> frame[t].call_no,
                  device |-> "cpu", precision |-> "saved", training |-> TRUE])

\* line 242: the weight file cannot be read
LoadEmbedderFileRaises(t) == Raises(t, "load_file", "load_model_ensemble")

\* line 247 (264, 281)
LoadEmbedderToDevice(t) ==
    EmbedderStep(t, "to_device", "cast",
                 [embedder_model EXCEPT !.device = "device"])

\* line 247: the placement raises
LoadEmbedderToDeviceRaises(t) == Raises(t, "to_device", "to(device)")

\* lines 248-251 (265-268, 282-285)
LoadEmbedderCast(t) ==
    EmbedderStep(t, "cast", "finish",
                 [embedder_model EXCEPT
                     !.precision = IF is_half THEN "half" ELSE "float"])

\* lines 249, 251: the cast raises
LoadEmbedderCastRaises(t) == Raises(t, "cast", "half()/float()")

\* line 254 (271, 288): the name recorded for the loaded embedder
LoadedName(fr) == fr.emb_name

\* lines 252-254 (269-271, 286-288): inference mode, and the name is recorded
LoadEmbedderFinish(t) ==
    /\ pc[t] = "finish"
    /\ embedder_model' = [embedder_model EXCEPT !.training = FALSE]
    /\ loaded_embedder_model' = LoadedName(frame[t])
    /\ pc' = [pc EXCEPT ![t] = IF frame[t].kind = "single"
                                THEN "call_pipeline" ELSE "returned"]
    /\ UNCHANGED <<otherSpecs, is_half, vc_model, audio_out, writes, frame, pre,
                   vc_call, n_calls>>

\* Mutant of PipelineArgs: with the flag set the paths are resolved even when
\* the request names them.
PipelineArgsAutoWins(t, req) ==
    [made |-> TRUE,
     embedder_model |-> embedder_model,
     sid |-> req.sid,
     faiss_index_file |->
        IF req.auto_load_index
        THEN get_index_path(frame[t].self.model_name, req.sid, req.fs)
        ELSE req.faiss_index_file,
     big_npy_file |->
        IF req.auto_load_index
        THEN get_big_npy_path(frame[t].self.model_name, req.sid, req.fs)
        ELSE req.big_npy_file,
     f0 |-> Get(frame[t].self.weight.f0, 1),
     embedder_name |-> frame[t].self.embedder_name,
     request |-> req]

\* lines 124-144: the index arguments are resolved and the pipeline is called
\* with the embedder model that is bound at that moment
PipelineArgs(t, req) ==
    [made |-> TRUE,
     embedder_model |-> embedder_model,
     sid |-> req.sid,
     faiss_index_file |->
        IF req.faiss_index_file = <<>> /\ req.auto_load_index
        THEN get_index_path(frame[t].self.model_name, req.sid, req.fs)
        ELSE req.faiss_index_file,
     big_npy_file |->
        IF req.big_npy_file = <<>> /\ req.auto_load_index
        THEN get_big_npy_path(frame[t].self.model_name, req.sid, req.fs)
        ELSE req.big_npy_file,
     f0 |-> Get(frame[t].self.weight.f0, 1),
     embedder_name |-> frame[t].self.embedder_name,
     request |-> req]

\* lines 124-144: self.vc(...) returns the converted samples.  The arguments
\* first read here are drawn here.
SingleCallPipeline(t, requests) ==
    \E req \in requests :
        /\ pc[t] = "call_pipeline"
        /\ vc_call' = [vc_call EXCEPT ![t] = PipelineArgs(t, req)]
        /\ pc' = [pc EXCEPT ![t] = "scan"]
        /\ UNCHANGED <<otherSpecs, globals, audio_out, writes, frame, pre, n_calls>>

\* lines 131-144: self.vc(...) raises
SinglePipelineRaises(t, requests) ==
    \E req \in requests :
        /\ pc[t] = "call_pipeline"
        /\ vc_call' = [vc_call EXCEPT ![t] = PipelineArgs(t, req)]
        /\ pc' = [pc EXCEPT ![t] = "raised"]
        /\ frame' = [frame EXCEPT ![t].error = "pipeline"]
        /\ UNCHANGED <<otherSpecs, globals, audio_out, writes, pre, n_calls>>

\* lines 146-162: the samples are wrapped, the directory is made and listed,
\* and the largest numeric prefix is found
SingleScan(t) ==
    /\ pc[t] = "scan"
    /\ frame' = [frame EXCEPT
          ![t].existing_files = audio_out,
          ![t].index = ScanLoop(audio_out, 0),
          ![t].out_name = ExportName(ScanLoop(audio_out, 0),
                                     frame[t].self.model_name,
                                     frame[t].input_audio)]
    /\ pc' = [pc EXCEPT ![t] = "export"]
    /\ UNCHANGED <<otherSpecs, globals, audio_out, writes, pre, vc_call, n_calls>>

\* lines 146-156: AudioSegment(...), os.makedirs or os.listdir raises
SingleScanRaises(t) == Raises(t, "scan", "AudioSegment/makedirs/listdir")

\* Mutant of Exported: the file is not written.
ExportedNothing(dir, name) == dir

\* lines 163-168: the directory after audio.export wrote the file
Exported(dir, name) == dir \cup {name}

\* lines 163-169: the file is written and the samples are returned
SingleExport(t) ==
    /\ pc[t] = "export"
    /\ audio_out' = Exported(audio_out, frame[t].out_name)
    /\ writes' = Append(writes, [name |-> frame[t].out_name,
                                 listing |-> frame[t].existing_files])
    /\ pc' = [pc EXCEPT ![t] = "returned"]
    /\ UNCHANGED <<otherSpecs, globals, frame, pre, vc_call, n_calls>>

\* lines 163-168: audio.export raises, before it opened the file or after
SingleExportRaises(t) ==
    \E opened \in BOOLEAN :
        /\ pc[t] = "export"
        /\ audio_out' = IF opened
                        THEN Exported(audio_out, frame[t].out_name)
                        ELSE audio_out
        /\ pc' = [pc EXCEPT ![t] = "raised"]
        /\ frame' = [frame EXCEPT ![t].error = "export"]
        /\ UNCHANGED <<otherSpecs, globals, writes, pre, vc_call, n_calls>>

-----------------------------------------------------------------------------
(* The process driven by one thread *)

Init ==
    /\ state_dict = NoCheckpoint
    /\ sd_in = NoCheckpoint
    /\ usd_status = "fresh"
    /\ resolver = NoResolver
    /\ is_half \in BOOLEAN
    /\ audio_out \in InitialOutDirs
    /\ ProcessStart
    /\ DownloadIdle

\* The steps in which no embedder load raises.
NextLoadsSucceed ==
    \/ LoadModel(Main, ModelNames, ConvertCheckpoints, FALSE)
    \/ LoadModelRaises(Main, ModelNames, ConvertCheckpoints, FALSE)
    \/ SingleNoSource(Main)
    \/ SingleDecodeRaises(Main)
    \/ SingleNotSupported(Main)
    \/ SingleStart(Main)
    \/ SingleCheckEmbedder(Main)
    \/ LoadHubert(Main)
    \/ LoadContentvec(Main)
    \/ LoadEmbedderFile(Main)
    \/ LoadEmbedderToDevice(Main)
    \/ LoadEmbedderCast(Main)
    \/ LoadEmbedderFinish(Main)
    \/ SingleCallPipeline(Main, Requests)
    \/ SinglePipelineRaises(Main, Requests)
    \/ SingleScan(Main)
    \/ SingleScanRaises(Main)
    \/ SingleExport(Main)
    \/ SingleExportRaises(Main)

Next ==
    \/ NextLoadsSucceed
    \/ LoadEmbedderFileRaises(Main)
    \/ LoadEmbedderToDeviceRaises(Main)
    \/ LoadEmbedderCastRaises(Main)

Spec == Init /\ [][Next]_vars

SpecLoadsSucceed == Init /\ [][NextLoadsSucceed]_vars

-----------------------------------------------------------------------------
(* Properties of the embedder registry *)

\* The family of the physical weight file a model was loaded from.
FileFamily(file) ==
    CASE file = "hubert_base.pt" -> "hubert_base"
      [] file = "checkpoint_best_legacy_500.pt" -> "contentvec"
      [] OTHER -> "none"

\* The family a session's embedder name asks for.
RequiredFamily(embedder_name) ==
    CASE embedder_name \in {"hubert_base", "hubert_base768"} -> "hubert_base"
      [] embedder_name \in {"contentvec", "contentvec768"} -> "contentvec"
      [] OTHER -> "unsupported"

\* Thread t is in, or has left, a convert call that went past the check of
\* lines 116-119.
PastCheck(t) ==
    /\ frame[t].kind = "single"
    /\ \/ pc[t] \in {"load_file", "to_device", "cast", "finish",
                     "call_pipeline", "scan", "export", "returned"}
       \/ pc[t] = "raised"
          /\ frame[t].error \in {"pipeline", "AudioSegment/makedirs/listdir",
                                 "export"}

\* C1: with loads that succeed, a convert call loads the embedder if and only
\* if none is loaded or the loaded one's family differs from the family of the
\* session's embedder name; a call that does not load hands the pipeline the
\* very instance that was loaded before it, a call that loads hands it the
\* instance it loaded.
LoadIffFamilyDiffers ==
    PastCheck(Main) =>
        /\ frame[Main].loaded
              <=> \/ pre[Main].embedder_model = NoEmbedder
                  \/ FileFamily(pre[Main].embedder_model.file)
                        # RequiredFamily(frame[Main].self.embedder_name)
        /\ vc_call[Main].made /\ ~frame[Main].loaded
              => vc_call[Main].embedder_model = pre[Main].embedder_model
        /\ vc_call[Main].made /\ frame[Main].loaded
              => vc_call[Main].embedder_model.inst = frame[Main].call_no

\* The second call, on a hubert_base768 session, reuses the hubert_base
\* instance the first call loaded.
LoadIffFamilyDiffersWitness ==
    /\ PastCheck(Main)
    /\ frame[Main].self.embedder_name = "hubert_base768"
    /\ frame[Main].call_no = 2
    /\ ~frame[Main].loaded
    /\ loaded_embedder_model = "hubert_base"
    /\ vc_call[Main].made
    /\ vc_call[Main].embedder_model.inst = 1
    /\ vc_call[Main].embedder_model.file = "hubert_base.pt"

\* C2: between operations, whenever an embedder model is held, the recorded
\* name is the family of the weight file the model was loaded from.
RegistryNameMatchesFile ==
    Ready(Main) /\ embedder_model # NoEmbedder
        => loaded_embedder_model = FileFamily(embedder_model.file)

-----------------------------------------------------------------------------
(* The process after an earlier load_hubert() or load_contentvec() *)

\* The registry as a completed load of the given file under the given name
\* leaves it (lines 242-254).
LoadedEmbedder(emb_file, half) ==
    [file |-> emb_file, inst |-> 0, device |-> "device",
     precision |-> IF half THEN "half" ELSE "float", training |-> FALSE]

InitWarm ==
    /\ state_dict = NoCheckpoint
    /\ sd_in = NoCheckpoint
    /\ usd_status = "fresh"
    /\ resolver = NoResolver
    /\ is_half \in BOOLEAN
    /\ audio_out \in {{}, {<<"1", "-", "foo", "-", "bar", ".", "wav">>}}
    /\ vc_model = NoSession
    /\ \E name \in {"hubert_base", "contentvec"} :
          /\ embedder_model = LoadedEmbedder(load_emb_dic[name].file, is_half)
          /\ loaded_embedder_model = name
    /\ pc = [t \in Threads |-> "idle"]
    /\ frame = [t \in Threads |-> NoFrame]
    /\ pre = [t \in Threads |-> NoSnapshot]
    /\ vc_call = [t \in Threads |-> NoVcCall]
    /\ n_calls = 0
    /\ writes = <<>>
    /\ DownloadIdle

SpecWarm == InitWarm /\ [][Next]_vars

\* C16: whenever a convert call has invoked the pipeline, the embedder model
\* it passed was loaded from the weight file of the family that the session's
\* embedder name requires.
PipelineGetsRequiredFamily ==
    vc_call[Main].made
        => FileFamily(vc_call[Main].embedder_model.file)
              = RequiredFamily(vc_call[Main].embedder_name)

-----------------------------------------------------------------------------
(* Properties of the output writer *)

\* The numeric prefixes (leading decimal digits) among a set of file names.
NumericPrefixes(files) ==
    {ParseInt(SubSeq(f, 1, DigitRun(f))) : f \in {g \in files : DigitRun(g) > 0}}

\* 1 plus the largest numeric prefix, 1 when no name has one.
NextNumber(files) ==
    IF NumericPrefixes(files) = {} THEN 1
    ELSE 1 + CHOOSE m \in NumericPrefixes(files) :
                \A q \in NumericPrefixes(files) : q <= m

\* C7: a successful convert writes <n>-<model-basename>-<source-basename>.wav,
\* n being 1 plus the largest numeric prefix among the names present when the
\* directory was scanned, and 1 when none has a numeric prefix.
OutputNumbering ==
    frame[Main].kind = "single" /\ pc[Main] = "returned" =>
        /\ frame[Main].out_name
              = Str(NextNumber(frame[Main].existing_files)) \o <<"-">>
                \o splitext(frame[Main].self.model_name) \o <<"-">>
                \o splitext(basename(frame[Main].input_audio))
                \o <<".", "wav">>
        /\ frame[Main].out_name \in audio_out
        /\ frame[Main].existing_files = {}
              => frame[Main].out_name[1] = "1" /\ frame[Main].out_name[2] = "-"

OutputNumberingWitness ==
    /\ frame[Main].kind = "single" /\ pc[Main] = "returned"
    /\ frame[Main].existing_files
          = {<<"3", "-", "foo", "-", "bar", ".", "wav">>,
             <<"7", "-", "baz", "-", "qux", ".", "wav">>}
    /\ frame[Main].out_name = <<"8", "-", "foo", "-", "bar", ".", "wav">>
    /\ frame[Main].out_name \in audio_out

\* C8: the path a convert call is about to write is not the path of a file
\* present in the directory, and the path it wrote was not present when the
\* call began.
NoOverwrite ==
    /\ pc[Main] = "export" => frame[Main].out_name \notin audio_out
    /\ frame[Main].kind = "single" /\ pc[Main] = "returned"
          => frame[Main].out_name \notin pre[Main].audio_out

\* A file of the same model and source is present and the next one is numbered
\* past it.
NoOverwriteWitness ==
    /\ pc[Main] = "export"
    /\ <<"1", "-", "foo", "-", "bar", ".", "wav">> \in audio_out
    /\ frame[Main].out_name = <<"2", "-", "foo", "-", "bar", ".", "wav">>

\* C9: a convert call that returned has called the pipeline and then written
\* exactly one file, a .wav that was not there when the directory was listed
\* after the pipeline call, and nothing else in the directory changed.
ReturnWritesOnce ==
    frame[Main].kind = "single" /\ pc[Main] = "returned" =>
        /\ vc_call[Main].made
        /\ frame[Main].existing_files = pre[Main].audio_out
        /\ frame[Main].out_name \notin frame[Main].existing_files
        /\ audio_out = frame[Main].existing_files \cup {frame[Main].out_name}
        /\ Cardinality(audio_out \ pre[Main].audio_out) = 1
        /\ SubSeq(frame[Main].out_name, Len(frame[Main].out_name) - 1,
                  Len(frame[Main].out_name)) = <<".", "wav">>

ReturnWritesOnceWitness ==
    /\ frame[Main].kind = "single" /\ pc[Main] = "returned"
    /\ vc_call[Main].made
    /\ pre[Main].audio_out # {}
    /\ Cardinality(audio_out) = Cardinality(pre[Main].audio_out) + 1

\* C10: a convert call that raised left no new file in the output directory
\* and left the active session, the embedder model and the loaded embedder
\* name as they were when it began.
FailedConvertChangesNothing ==
    frame[Main].kind = "single" /\ pc[Main] = "raised" =>
        /\ audio_out = pre[Main].audio_out
        /\ vc_model = pre[Main].vc_model
        /\ embedder_model = pre[Main].embedder_model
        /\ loaded_embedder_model = pre[Main].loaded_embedder_model

-----------------------------------------------------------------------------
(* The output directory shared with other programs: between two convert     *)
(* calls files are added to AUDIO_OUT_DIR and removed from it                *)

\* The files other programs may put into the output directory.
ExternalFiles ==
    {<<"9", "-", "foo", "-", "bar", ".", "wav">>, <<"cover", ".", "png">>}

\* a file appears in AUDIO_OUT_DIR while no call is in progress
ExternalAdd ==
    \E f \in ExternalFiles \ audio_out :
        /\ Ready(Main)
        /\ audio_out' = audio_out \cup {f}
        /\ UNCHANGED <<otherSpecs, globals, writes, pc, frame, pre, vc_call,
                       n_calls>>

\* a file of AUDIO_OUT_DIR is deleted while no call is in progress
ExternalRemove ==
    \E f \in audio_out :
        /\ Ready(Main)
        /\ audio_out' = audio_out \ {f}
        /\ UNCHANGED <<otherSpecs, globals, writes, pc, frame, pre, vc_call,
                       n_calls>>

\* The session conversions run on here: embedder name absent, so hubert_base.
DefaultCheckpoints ==
    {Checkpoint(ParamsAbsent, BaseConfig(CanonicalLen), AbsentInt, AbsentStr, 1)}

InitSharedDir ==
    /\ state_dict = NoCheckpoint
    /\ sd_in = NoCheckpoint
    /\ usd_status = "fresh"
    /\ resolver = NoResolver
    /\ is_half = FALSE
    /\ audio_out \in {{}, {<<"3", "-", "foo", "-", "bar", ".", "wav">>}}
    /\ ProcessStart
    /\ DownloadIdle

NextSharedDir ==
    \/ LoadModel(Main, ModelNames, DefaultCheckpoints, FALSE)
    \/ SingleStart(Main)
    \/ SingleCheckEmbedder(Main)
    \/ LoadEmbedderFile(Main)
    \/ LoadEmbedderToDevice(Main)
    \/ LoadEmbedderCast(Main)
    \/ LoadEmbedderFinish(Main)
    \/ SingleCallPipeline(Main, {NoRequest})
    \/ SingleScan(Main)
    \/ SingleExport(Main)
    \/ ExternalAdd
    \/ ExternalRemove

SpecSharedDir == InitSharedDir /\ [][NextSharedDir]_vars

\* The numeric prefix of a written file's name.
PrefixOf(name) == ParseInt(SubSeq(name, 1, DigitRun(name)))

\* C15 as stated: each successful write's numeric prefix is greater than the
\* prefix of every earlier write, whatever was added to or removed from the
\* directory in between.
PrefixAlwaysGrows ==
    \A j, k \in DOMAIN writes :
        j < k => PrefixOf(writes[k].name) > PrefixOf(writes[j].name)

\* C15 as amended: each successful write's numeric prefix is greater than the
\* prefix of every earlier write whose file is still in the directory when
\* the later write lists it, whatever else was added to or removed from the
\* directory in between.
PrefixGrowsWhilePresent ==
    \A j, k \in DOMAIN writes :
        j < k /\ writes[j].name \in writes[k].listing
            => PrefixOf(writes[k].name) > PrefixOf(writes[j].name)

\* The first write is still there at the second, a file was added and
\* another removed in between, and the second write is numbered past both.
PrefixGrowsWhilePresentWitness ==
    /\ Len(writes) = 2
    /\ writes[1].name = <<"4", "-", "foo", "-", "bar", ".", "wav">>
    /\ writes[2].listing = {writes[1].name,
                            <<"9", "-", "foo", "-", "bar", ".", "wav">>}
    /\ PrefixOf(writes[2].name) = 10

-----------------------------------------------------------------------------
(* Two threads calling into the module with nothing serializing them: each  *)
(* step of a call is atomic, the steps of the two threads interleave freely *)

\* One session per embedder family.
FamilyCheckpoints ==
    {Checkpoint(ParamsAbsent, BaseConfig(CanonicalLen), AbsentInt, e, 1) :
        e \in {AbsentStr, Present("contentvec")}}

InitConcurrent ==
    /\ state_dict = NoCheckpoint
    /\ sd_in = NoCheckpoint
    /\ usd_status = "fresh"
    /\ resolver = NoResolver
    /\ is_half = FALSE
    /\ audio_out = {<<"3", "-", "foo", "-", "bar", ".", "wav">>}
    /\ ProcessStart
    /\ DownloadIdle

NextConcurrent ==
    \E t \in Threads :
        \/ LoadModel(t, {<<"foo", ".", "pth">>}, FamilyCheckpoints, FALSE)
        \/ SingleStart(t)
        \/ SingleCheckEmbedder(t)
        \/ LoadEmbedderFile(t)
        \/ LoadEmbedderToDevice(t)
        \/ LoadEmbedderCast(t)
        \/ LoadEmbedderFinish(t)
        \/ SingleCallPipeline(t, {NoRequest})
        \/ SingleScan(t)
        \/ SingleExport(t)

SpecConcurrent == InitConcurrent /\ [][NextConcurrent]_vars

\* Thread t's call handed the pipeline a model of a family other than the one
\* its session's embedder name requires.
WrongEmbedderPassed(t) ==
    /\ vc_call[t].made
    /\ FileFamily(vc_call[t].embedder_model.file)
          # RequiredFamily(vc_call[t].embedder_name)

\* C17: a call on a hubert_base session hands the pipeline the contentvec
\* model that a concurrent call of the other thread bound between this
\* call's check and its pipeline call; a wrong model a call hands over is
\* never the one the call itself loaded, and is handed over only once a
\* second call has begun.
WrongEmbedderIsForeign ==
    \A t \in Threads :
        WrongEmbedderPassed(t)
            => /\ vc_call[t].embedder_model.inst # frame[t].call_no
               /\ n_calls > 1

\* Thread 1 loaded hubert_base for its session and, before it called the
\* pipeline, thread 2's call on a contentvec session bound its model.
WrongEmbedderIsForeignWitness ==
    /\ WrongEmbedderPassed(1)
    /\ frame[1].loaded
    /\ frame[1].emb_name = "hubert_base"
    /\ frame[2].kind = "single"
    /\ ~Ready(2)
    /\ frame[2].emb_name = "contentvec"
    /\ vc_call[1].embedder_model.file = "checkpoint_best_legacy_500.pt"
    /\ vc_call[1].embedder_model.inst = frame[2].call_no

-----------------------------------------------------------------------------
(* Properties of the output numbering under two threads *)

\* C18: two calls that list the output directory before either writes get
\* the same number, and with equal model and source base names write the
\* same path; two writes go to the same path only when the later call's
\* listing was taken before the earlier write, and then both listings hold
\* the same largest prefix.
SamePathOnlyWhenScansOverlap ==
    \A j, k \in DOMAIN writes :
        j < k /\ writes[j].name = writes[k].name
            => /\ writes[j].name \notin writes[k].listing
               /\ NextNumber(writes[j].listing) = NextNumber(writes[k].listing)

\* Both threads listed the same directory and wrote 4-foo-bar.wav, the
\* second over the first: two writes, one new file.
SamePathOnlyWhenScansOverlapWitness ==
    /\ pc[1] = "returned" /\ pc[2] = "returned"
    /\ Len(writes) = 2
    /\ writes[1].name = <<"4", "-", "foo", "-", "bar", ".", "wav">>
    /\ writes[2].name = writes[1].name
    /\ frame[1].out_name = frame[2].out_name
    /\ frame[1].existing_files = frame[2].existing_files
    /\ Cardinality(audio_out) = Cardinality(frame[1].existing_files) + 1

-----------------------------------------------------------------------------
(* Conversions whose requests carry index arguments *)

\* The per-speaker artifacts the models directory may hold.
IndexArtifacts ==
    {speaker_path(<<"foo", ".", "pth">>, 0, IndexExt),
     speaker_path(<<"foo", ".", "pth">>, 1, BigNpyExt),
     speaker_path(<<"baz", ".", "v", ".", "ckpt">>, 1, IndexExt)}

\* Requests with and without explicit paths, with the flag set and not.
IndexRequests ==
    {[sid |-> sid, auto_load_index |-> a, faiss_index_file |-> fi,
      big_npy_file |-> bn, fs |-> fs] :
        sid \in 0..MaxSid, a \in BOOLEAN,
        fi \in {<<>>, <<"my", ".", "index">>},
        bn \in {<<>>, <<"my", ".", "big", ".", "npy">>},
        fs \in SUBSET IndexArtifacts}

InitRequests ==
    /\ state_dict = NoCheckpoint
    /\ sd_in = NoCheckpoint
    /\ usd_status = "fresh"
    /\ resolver = NoResolver
    /\ is_half = FALSE
    /\ audio_out = {}
    /\ ProcessStart
    /\ DownloadIdle

NextRequests ==
    \/ LoadModel(Main, ModelNames, DefaultCheckpoints, FALSE)
    \/ SingleStart(Main)
    \/ SingleCheckEmbedder(Main)
    \/ LoadEmbedderFile(Main)
    \/ LoadEmbedderToDevice(Main)
    \/ LoadEmbedderCast(Main)
    \/ LoadEmbedderFinish(Main)
    \/ SingleCallPipeline(Main, IndexRequests)
    \/ SinglePipelineRaises(Main, IndexRequests)
    \/ SingleScan(Main)
    \/ SingleExport(Main)

SpecRequests == InitRequests /\ [][NextRequests]_vars

\* checkpoints/<basename>_index/<basename>.<sid><ext> under the models
\* directory when that file is in fs, checkpoints/<basename><ext> otherwise
ResolvedArtifact(model_name, sid, ext, fs) ==
    LET stem == splitext(model_name)
        per == MODELS_DIR \o <<"/", "checkpoints", "/">> \o stem
               \o <<"_index", "/">> \o stem \o <<".">> \o Str(sid) \o ext
    IN  IF per \in fs THEN per
        ELSE MODELS_DIR \o <<"/", "checkpoints", "/">> \o stem \o ext

\* C19: the pipeline gets the request's speaker id; a non-empty explicit
\* index or vector-store path is passed as given, whatever the flag; with the
\* flag set an empty path is replaced by the resolver's result for the
\* session's model name and the request's speaker id; with the flag not set
\* both paths are passed as given, empty ones staying empty.
IndexArgumentsPassed ==
    vc_call[Main].made =>
        LET req == vc_call[Main].request
            model_name == frame[Main].self.model_name
        IN  /\ vc_call[Main].sid = req.sid
            /\ req.faiss_index_file # <<>>
                  => vc_call[Main].faiss_index_file = req.faiss_index_file
            /\ req.big_npy_file # <<>>
                  => vc_call[Main].big_npy_file = req.big_npy_file
            /\ req.auto_load_index /\ req.faiss_index_file = <<>>
                  => vc_call[Main].faiss_index_file
                        = ResolvedArtifact(model_name, req.sid, IndexExt, req.fs)
            /\ req.auto_load_index /\ req.big_npy_file = <<>>
                  => vc_call[Main].big_npy_file
                        = ResolvedArtifact(model_name, req.sid, BigNpyExt,
                                           req.fs)
            /\ ~req.auto_load_index
                  => /\ vc_call[Main].faiss_index_file = req.faiss_index_file
                     /\ vc_call[Main].big_npy_file = req.big_npy_file

\* Flag set, no explicit path, speaker 1 of foo.pth: the index falls back to
\* the model-level file, the vector store is the per-speaker file.
IndexArgumentsPassedWitness ==
    /\ vc_call[Main].made
    /\ vc_call[Main].request.auto_load_index
    /\ vc_call[Main].request.faiss_index_file = <<>>
    /\ vc_call[Main].request.big_npy_file = <<>>
    /\ vc_call[Main].sid = 1
    /\ vc_call[Main].faiss_index_file
          = <<"models", "/", "checkpoints", "/", "foo", ".", "index">>
    /\ vc_call[Main].big_npy_file
          = <<"models", "/", "checkpoints", "/", "foo", "_index", "/",
              "foo", ".", "1", ".", "big", ".", "npy">>

-----------------------------------------------------------------------------
(* Properties of the validation in VC_MODEL.single *)

\* The current or last call of thread t is a convert with an empty source
\* path or on a session whose embedder name is not in the table.
InvalidConvert(t) ==
    /\ frame[t].kind = "single"
    /\ \/ frame[t].input_audio = <<>>
       \/ RequiredFamily(frame[t].self.embedder_name) = "unsupported"

\* C11: a convert call with an empty source path, or on a session whose
\* embedder name is none of the four supported ones, has raised at its entry:
\* it loaded no embedder, called no pipeline, and the active session, the
\* embedder model, the loaded name and the output directory are as they were
\* when it began.
RejectedBeforeMutation ==
    InvalidConvert(Main) =>
        /\ pc[Main] = "raised"
        /\ frame[Main].error \in {"You need to set Source Audio", "load_audio",
                                  "Not supported embedder"}
        /\ ~frame[Main].loaded
        /\ ~vc_call[Main].made
        /\ Snapshot = pre[Main]

\* An unsupported session is refused while an embedder loaded earlier is held.
RejectedBeforeMutationWitness ==
    /\ InvalidConvert(Main)
    /\ frame[Main].input_audio # <<>>
    /\ frame[Main].error = "Not supported embedder"
    /\ embedder_model # NoEmbedder
    /\ loaded_embedder_model = "contentvec"
    /\ audio_out # {}

-----------------------------------------------------------------------------
(* Pretrained-asset fetcher: download_models, one action per pass of its    *)
(* loops and per wait; the donwload_file calls handed to the executor run   *)
(* in its threads                                                           *)

\* The assets a models directory may lack when download_models is called.
MaybeAbsent ==
    {PretrainedOuts[1], PretrainedOuts[6], PretrainedOuts[12],
     EmbedderOuts[1], EmbedderOuts[2]}

notDownload == <<normalizeVars, resolver, processVars>>

InitDownload ==
    /\ state_dict = NoCheckpoint
    /\ sd_in = NoCheckpoint
    /\ usd_status = "fresh"
    /\ resolver = NoResolver
    /\ is_half = FALSE
    /\ audio_out = {}
    /\ ProcessStart
    /\ present \in {AllOuts \ absent : absent \in SUBSET MaybeAbsent}
    /\ fetch = [f \in AllOuts |-> NoFetch]
    /\ download = NoDownload

\* lines 202-204: download_models() is called
DownloadModels ==
    /\ download.pc = "idle"
    /\ download' = [NoDownload EXCEPT !.pc = "pretrained"]
    /\ UNCHANGED <<present, fetch, notDownload>>

\* lines 212-216: one pass of the loops; a missing file's donwload_file call
\* is handed to the executor and its future joins tasks
CheckPretrained ==
    /\ download.pc = "pretrained"
    /\ download.i < Len(PretrainedOuts)
    /\ LET out == PretrainedOuts[download.i + 1]
       IN  IF exists(out, present)
           THEN /\ download' = [download EXCEPT !.i = download.i + 1]
                /\ UNCHANGED fetch
           ELSE /\ download' = [download EXCEPT
                                   !.i = download.i + 1,
                                   !.tasks = Append(download.tasks, out)]
                /\ fetch' = [fetch EXCEPT
                                ![out] = [state |-> "running",
                                          after_wait |-> download.waited]]
    /\ UNCHANGED <<present, notDownload>>

\* lines 218-219: with tasks, run_until_complete(gather(...)) begins to wait
PretrainedListed ==
    /\ download.pc = "pretrained"
    /\ download.i = Len(PretrainedOuts)
    /\ download' =
          IF Len(download.tasks) > 0
          THEN [download EXCEPT !.pc = "gather", !.waited = TRUE]
          ELSE [download EXCEPT !.pc = "embedders", !.i = 0]
    /\ UNCHANGED <<present, fetch, notDownload>>

\* line 219: every task is done and gather's future has its result
GatherReturns ==
    /\ download.pc = "gather"
    /\ \A k \in DOMAIN download.tasks : fetch[download.tasks[k]].state = "done"
    /\ download' = [download EXCEPT !.pc = "embedders", !.i = 0]
    /\ UNCHANGED <<present, fetch, notDownload>>

\* line 219: a task failed; gather sets its exception at once and
\* run_until_complete raises it, the other tasks being left to run
GatherRaises ==
    /\ download.pc = "gather"
    /\ \E k \in DOMAIN download.tasks : fetch[download.tasks[k]].state = "failed"
    /\ download' = [download EXCEPT !.pc = "raised"]
    /\ UNCHANGED <<present, fetch, notDownload>>

\* lines 225-227: one pass of the second loop; donwload_file is called for a
\* missing file in the calling thread
CheckEmbedder ==
    /\ download.pc = "embedders"
    /\ download.i < Len(EmbedderOuts)
    /\ LET out == EmbedderOuts[download.i + 1]
       IN  IF exists(out, present)
           THEN /\ download' = [download EXCEPT !.i = download.i + 1]
                /\ UNCHANGED fetch
           ELSE /\ download' = [download EXCEPT !.pc = "fetch_embedder",
                                                !.waited = TRUE]
                /\ fetch' = [fetch EXCEPT
                                ![out] = [state |-> "running",
                                          after_wait |-> download.waited]]
    /\ UNCHANGED <<present, notDownload>>

\* line 227: donwload_file returns
EmbedderFetched ==
    /\ download.pc = "fetch_embedder"
    /\ fetch[EmbedderOuts[download.i + 1]].state = "done"
    /\ download' = [download EXCEPT !.pc = "embedders", !.i = download.i + 1]
    /\ UNCHANGED <<present, fetch, notDownload>>

\* line 227: donwload_file raises
EmbedderFetchRaises ==
    /\ download.pc = "fetch_embedder"
    /\ fetch[EmbedderOuts[download.i + 1]].state = "failed"
    /\ download' = [download EXCEPT !.pc = "raised"]
    /\ UNCHANGED <<present, fetch, notDownload>>

\* the second loop is over: download_models returns
DownloadReturns ==
    /\ download.pc = "embedders"
    /\ download.i = Len(EmbedderOuts)
    /\ download' = [download EXCEPT !.pc = "returned"]
    /\ UNCHANGED <<present, fetch, notDownload>>

\* a donwload_file call in progress writes its file and ends
FetchCompletes ==
    \E f \in AllOuts :
        /\ fetch[f].state = "running"
        /\ fetch' = [fetch EXCEPT ![f].state = "done"]
        /\ present' = present \cup {f}
        /\ UNCHANGED <<download, notDownload>>

\* a donwload_file call in progress raises
FetchFails ==
    \E f \in AllOuts :
        /\ fetch[f].state = "running"
        /\ fetch' = [fetch EXCEPT ![f].state = "failed"]
        /\ UNCHANGED <<present, download, notDownload>>

NextDownload ==
    \/ DownloadModels
    \/ CheckPretrained
    \/ PretrainedListed
    \/ GatherReturns
    \/ GatherRaises
    \/ CheckEmbedder
    \/ EmbedderFetched
    \/ EmbedderFetchRaises
    \/ DownloadReturns
    \/ FetchCompletes
    \/ FetchFails

SpecDownload == InitDownload /\ [][NextDownload]_vars

\* C13: once download_models has handed control back, by returning or by
\* raising, none of the fetches it started is still in progress.
JoinBeforeReturn ==
    download.pc \in {"returned", "raised"}
        => \A f \in AllOuts : fetch[f].state # "running"

\* C14: every fetch download_models starts, for a pretrained file or an
\* embedder file, is started before the function has waited for any fetch.
AllFetchesStartBeforeWait ==
    \A f \in AllOuts : fetch[f].state # "none" => ~fetch[f].after_wait

====
